---- MODULE Spec2Model ----
(***************************************************************************)
(* A model of openff/recharge/grids/grids.py: the GridSettings schema and  *)
(* GridGenerator.generate, which filters a face-centred-cubic lattice      *)
(* around a conformer against the scaled van-der-Waals shells of its atoms.*)
(*                                                                         *)
(* Arithmetic.  The code works on floats; the model works on exact         *)
(* rationals held as integers:                                             *)
(*   - lengths (atom coordinates, radii, the spacing) are whole numbers    *)
(*     of one length unit;                                                 *)
(*   - a scale factor s is held as its numerator s * ScaleDen;             *)
(*   - a grid coordinate c is held as c * 2 * n_atoms, which is whole      *)
(*     because c = (index - n_cells) * spacing / 2 + sum(conformer)/n_atoms*)
(*   - distances are compared by their squares.                            *)
(* Floating-point rounding is therefore not part of the model.             *)
(***************************************************************************)
EXTENDS Integers, Sequences, FiniteSets

VARIABLES pc, settings, oe_molecule, conformer, result

vars == <<pc, settings, oe_molecule, conformer, result>>

(* ---------------------------- bounds ----------------------------------- *)

\* Largest number of atoms of a molecule, and of rows of a conformer.
MaxAtoms == 3
\* Denominator of the scale factors: 11 stands for the factor 1.1.
ScaleDen == 10

Axes == 1..3

\* The radii OEAssignBondiVdWRadii assigned to the atoms molecules are
\* built from, in whole length units (all positive).
RadiusPool == <<2, 1, 1, 2>>

\* A molecule is modelled by the radii of its atoms, by atom index: every
\* run of one to MaxAtoms consecutive radii of the pool.
Molecules ==
    {[i \in 1..m |-> RadiusPool[i + k]] :
        <<m, k>> \in {<<m, k>> \in (1..MaxAtoms) \X (0..Len(RadiusPool)) :
                        m + k <= Len(RadiusPool)}}

\* The atom positions conformers are built from, in whole length units.
ConformerPool ==
    << <<0, 0, 0>>, <<2, 0, 0>>, <<0, 1, 0>>, <<0, 2, 2>>, <<3, 3, 1>> >>

\* Conformers: every run of one to MaxAtoms consecutive positions of the pool.
\* The first is a single atom at the origin; some three-atom ones have a
\* centroid that is not a whole number of length units, and the last has
\* its centroid well off the centre of its bounding box.
Conformers ==
    {[i \in 1..n |-> ConformerPool[i + k]] :
        <<n, k>> \in {<<n, k>> \in (1..MaxAtoms) \X (0..Len(ConformerPool)) :
                        n + k <= Len(ConformerPool)}}

\* The values offered to the GridSettings constructor, valid and invalid.
Types == {"fcc", "msk"}
Spacings == {-2, 0, 2, 3, 4}
Scales == {-5, 0, 5, 10, 11}

NoSettings == [type |-> "none"]
NoResult == [raised |-> "pending", grid |-> << >>]


(* --------------------------- GridSettings ------------------------------ *)

\* As GridSettingsValid, with spacing declared float instead of PositiveFloat.
GridSettingsValid_float_spacing(type, spacing, inner_vdw_scale, outer_vdw_scale) ==
    /\ type = "fcc"
    /\ inner_vdw_scale > 0
    /\ outer_vdw_scale > 0

\* pydantic's validation of the fields: Literal["fcc"] and three
\* PositiveFloat. Nothing relates inner_vdw_scale to outer_vdw_scale.
GridSettingsValid(type, spacing, inner_vdw_scale, outer_vdw_scale) ==
    /\ type = "fcc"
    /\ spacing > 0
    /\ inner_vdw_scale > 0
    /\ outer_vdw_scale > 0

(* ------------------------- numpy helpers ------------------------------- *)

\* Whether arrays of shapes (n, 3) and (m, 1) broadcast together.
Broadcastable(m, n) == m = n \/ m = 1 \/ n = 1

\* The number of rows of the broadcast of m rows with n rows.
BroadcastRows(m, n) == IF m > n THEN m ELSE n

\* Row i of an array broadcast to more rows: a one-row array repeats.
Row(array, i) == IF Len(array) = 1 THEN array[1] ELSE array[i]

Max(S) == CHOOSE x \in S : \A y \in S : y <= x
Min(S) == CHOOSE x \in S : \A y \in S : x <= y

\* ceil(a / b) for b # 0.
Ceil(a, b) == IF b > 0 THEN -((-a) \div b) ELSE -(a \div (-b))

\* d < v and d > v for a distance d >= 0 given by its square d2 (times
\* den2) and a value v given as num / sqrt(den2).
DistanceLess(d2, num, den2) == num > 0 /\ d2 * den2 < num * num
DistanceGreater(d2, num, den2) == num < 0 \/ d2 * den2 > num * num

(* ----------------------- GridGenerator.generate ------------------------ *)

\* The sum of the first k rows of an array, along one axis.
RECURSIVE column_sum(_, _, _)
column_sum(c, a, k) == IF k = 0 THEN 0 ELSE column_sum(c, a, k - 1) + c[k][a]

\* numpy.mean(conformer, axis=0), as the sum of the rows: the centre is
\* conformer_center(c)[a] / Len(c).
conformer_center(c) == [a \in Axes |-> column_sum(c, a, Len(c))]

\* numpy.min(conformer - radii * outer_vdw_scale, axis=0), times ScaleDen.
minimum_bounds(radii, c, s) ==
    [a \in Axes |->
        Min({ScaleDen * Row(c, i)[a] - Row(radii, i) * s.outer_vdw_scale :
                i \in 1..BroadcastRows(Len(radii), Len(c))})]

\* numpy.max(conformer + radii * outer_vdw_scale, axis=0), times ScaleDen.
maximum_bounds(radii, c, s) ==
    [a \in Axes |->
        Max({ScaleDen * Row(c, i)[a] + Row(radii, i) * s.outer_vdw_scale :
                i \in 1..BroadcastRows(Len(radii), Len(c))})]

\* As max_extent, forgetting to subtract minimum_bounds.
max_extent_of_maximum(radii, c, s) ==
    Max({maximum_bounds(radii, c, s)[a] : a \in Axes})

\* numpy.max(maximum_bounds - minimum_bounds), times ScaleDen.
max_extent(radii, c, s) ==
    Max({maximum_bounds(radii, c, s)[a] - minimum_bounds(radii, c, s)[a] :
            a \in Axes})

\* int(numpy.ceil(max extent / spacing)), for a spacing # 0.
n_cells(radii, c, s) == Ceil(max_extent(radii, c, s), ScaleDen * s.spacing)

\* The FCC parity test on a lattice index.
is_grid_point(x, y, z) ==
    LET a == x % 2
        b == y % 2
        c == z % 2
    IN  \/ (a = 0 /\ b = 0 /\ c = 0)
        \/ (a = 1 /\ b = 1 /\ c = 0)
        \/ (a = 0 /\ b = 1 /\ c = 1)
        \/ (a = 1 /\ b = 0 /\ c = 1)

\* As index_range, for range(0, n * 2).
index_range_half_open(n) == n * 2

\* The number of values each lattice index runs over: range(0, n * 2 + 1).
index_range(n) == n * 2 + 1

\* As product_index, with z slowest and x fastest.
product_index_z_major(k, L) == <<k % L, (k \div L) % L, k \div (L * L)>>

\* The k-th triple (k from 0) of itertools.product(range(L), repeat=3):
\* x slowest, z fastest.
product_index(k, L) == <<k \div (L * L), (k \div L) % L, k % L>>

\* The coordinate of lattice index idx, times 2 * Len(c).
coordinate(idx, n, c, s) ==
    [a \in Axes |-> (idx[a] - n) * s.spacing * Len(c)
                    + 2 * conformer_center(c)[a]]

\* The squared distance of a coordinate to atom i, times (2 * Len(c))^2.
distance2(coord, c, i) ==
    LET d == [a \in Axes |-> coord[a] - 2 * Len(c) * c[i][a]]
    IN  d[1] * d[1] + d[2] * d[2] + d[3] * d[3]

\* As inside_inner_shell, with numpy.all in place of numpy.any.
inside_inner_shell_all(coord, radii, c, s) ==
    \A i \in 1..(IF Len(radii) > Len(c) THEN Len(radii) ELSE Len(c)) :
        (2 * Len(c) * (IF Len(radii) = 1 THEN radii[1] ELSE radii[i])
                * s.inner_vdw_scale > 0)
        /\ (LET d == [a \in Axes |->
                        coord[a] - 2 * Len(c) * c[IF Len(c) = 1 THEN 1 ELSE i][a]]
            IN  (d[1] * d[1] + d[2] * d[2] + d[3] * d[3]) * ScaleDen * ScaleDen)
            < (2 * Len(c) * (IF Len(radii) = 1 THEN radii[1] ELSE radii[i])
                    * s.inner_vdw_scale)
              * (2 * Len(c) * (IF Len(radii) = 1 THEN radii[1] ELSE radii[i])
                    * s.inner_vdw_scale)

\* As inside_inner_shell, with the comparison turned round (distances >).
inside_inner_shell_flipped(coord, radii, c, s) ==
    \E i \in 1..(IF Len(radii) > Len(c) THEN Len(radii) ELSE Len(c)) :
        (LET d == [a \in Axes |->
                        coord[a] - 2 * Len(c) * c[IF Len(c) = 1 THEN 1 ELSE i][a]]
         IN  (d[1] * d[1] + d[2] * d[2] + d[3] * d[3]) * ScaleDen * ScaleDen)
            > (2 * Len(c) * (IF Len(radii) = 1 THEN radii[1] ELSE radii[i])
                    * s.inner_vdw_scale)
              * (2 * Len(c) * (IF Len(radii) = 1 THEN radii[1] ELSE radii[i])
                    * s.inner_vdw_scale)

\* numpy.any(distances < radii * inner_vdw_scale): distances has one row
\* per conformer row, radii one per atom, and the two broadcast.
inside_inner_shell(coord, radii, c, s) ==
    \E i \in 1..BroadcastRows(Len(radii), Len(c)) :
        DistanceLess(distance2(coord, c, IF Len(c) = 1 THEN 1 ELSE i),
                     2 * Len(c) * Row(radii, i) * s.inner_vdw_scale,
                     ScaleDen * ScaleDen)

\* As outside_outer_shell, without the reshape(-1, 1) of distances: the
\* comparison then broadcasts every distance against every radius.
outside_outer_shell_no_reshape(coord, radii, c, s) ==
    \A i \in 1..Len(c), j \in 1..Len(radii) :
        (LET d == [a \in Axes |-> coord[a] - 2 * Len(c) * c[i][a]]
         IN  (d[1] * d[1] + d[2] * d[2] + d[3] * d[3]) * ScaleDen * ScaleDen)
            > (2 * Len(c) * radii[j] * s.outer_vdw_scale)
              * (2 * Len(c) * radii[j] * s.outer_vdw_scale)

\* numpy.all(distances > radii * outer_vdw_scale).
outside_outer_shell(coord, radii, c, s) ==
    \A i \in 1..BroadcastRows(Len(radii), Len(c)) :
        DistanceGreater(distance2(coord, c, IF Len(c) = 1 THEN 1 ELSE i),
                        2 * Len(c) * Row(radii, i) * s.outer_vdw_scale,
                        ScaleDen * ScaleDen)

\* The loop body's decision for one lattice index.
retained(idx, n, radii, c, s) ==
    /\ is_grid_point(idx[1], idx[2], idx[3])
    /\ ~inside_inner_shell(coordinate(idx, n, c, s), radii, c, s)
    /\ ~outside_outer_shell(coordinate(idx, n, c, s), radii, c, s)

\* The loop over itertools.product(range(0, n_cells * 2 + 1), repeat=3):
\* the coordinates list it builds, in the order the indices are visited.
lattice_loop(n, radii, c, s) ==
    LET L == index_range(n)
        visited == [k \in 1..(L * L * L) |-> product_index(k - 1, L)]
        kept == SelectSeq(visited, LAMBDA idx : retained(idx, n, radii, c, s))
    IN  [i \in 1..Len(kept) |-> coordinate(kept[i], n, c, s)]

\* GridGenerator.generate: what it raises, and the grid it returns.
generate(radii, c, s) ==
    IF ~Broadcastable(Len(radii), Len(c))
    THEN [raised |-> "ValueError: operands could not be broadcast together",
          grid |-> << >>]
    ELSE IF s.spacing = 0
    THEN [raised |-> IF max_extent(radii, c, s) = 0
                     THEN "ValueError: cannot convert float NaN to integer"
                     ELSE "OverflowError: cannot convert float infinity to integer",
          grid |-> << >>]
    ELSE LET n == n_cells(radii, c, s)
             coordinates == lattice_loop(n, radii, c, s)
         IN  IF coordinates = << >>
             THEN [raised |-> "ValueError: need at least one array to concatenate",
                   grid |-> << >>]
             ELSE [raised |-> "none", grid |-> coordinates]

(* ------------------------------ actions -------------------------------- *)

Init ==
    /\ pc = "start"
    /\ settings = NoSettings
    /\ oe_molecule \in Molecules
    /\ conformer \in Conformers
    /\ result = NoResult

\* GridSettings(type=..., spacing=..., ...): pydantic validates the fields
\* and raises a ValidationError instead of constructing the object.
GridSettings ==
    /\ pc = "start"
    /\ \E type \in Types, spacing \in Spacings,
          inner_vdw_scale \in Scales, outer_vdw_scale \in Scales :
          IF GridSettingsValid(type, spacing, inner_vdw_scale, outer_vdw_scale)
          THEN /\ settings' = [type |-> type, spacing |-> spacing,
                               inner_vdw_scale |-> inner_vdw_scale,
                               outer_vdw_scale |-> outer_vdw_scale]
               /\ pc' = "constructed"
          ELSE /\ settings' = settings
               /\ pc' = "ValidationError"
    /\ UNCHANGED <<oe_molecule, conformer, result>>

\* GridGenerator.generate(oe_molecule, conformer, settings).
Generate ==
    /\ pc = "constructed"
    /\ result' = generate(oe_molecule, conformer, settings)
    /\ pc' = "returned"
    /\ UNCHANGED <<settings, oe_molecule, conformer>>

Next == GridSettings \/ Generate

Spec == Init /\ [][Next]_vars

(* ------------------------ vocabulary of the claims --------------------- *)

Returned == pc = "returned"
ReturnedGrid == pc = "returned" /\ result.raised = "none"
MatchedLengths == Len(oe_molecule) = Len(conformer)
Points(r) == {r.grid[i] : i \in 1..Len(r.grid)}

\* The squared distance of grid point p to atom i of the conformer, in
\* units of (1 / (2 * n_atoms))^2.
PointAtomDistance2(p, i) ==
    LET N == Len(conformer)
    IN  (p[1] - 2 * N * conformer[i][1]) * (p[1] - 2 * N * conformer[i][1])
      + (p[2] - 2 * N * conformer[i][2]) * (p[2] - 2 * N * conformer[i][2])
      + (p[3] - 2 * N * conformer[i][3]) * (p[3] - 2 * N * conformer[i][3])

\* radius * scale of atom i, squared, in the same units times ScaleDen^2.
ShellRadius2(i, scale) ==
    (2 * Len(conformer) * oe_molecule[i] * scale)
        * (2 * Len(conformer) * oe_molecule[i] * scale)

(* C1: every returned point is at distance >= radius * inner_vdw_scale from
   ALL atoms and at distance <= radius * outer_vdw_scale from SOME atom. *)
C1_ShellMembership ==
    (ReturnedGrid /\ MatchedLengths) =>
        \A p \in Points(result) :
            /\ \A i \in 1..Len(conformer) :
                  PointAtomDistance2(p, i) * ScaleDen * ScaleDen
                      >= ShellRadius2(i, settings.inner_vdw_scale)
            /\ \E i \in 1..Len(conformer) :
                  PointAtomDistance2(p, i) * ScaleDen * ScaleDen
                      <= ShellRadius2(i, settings.outer_vdw_scale)

\* A grid was returned for a molecule of several atoms with unequal radii.
C1_Witness ==
    /\ ReturnedGrid
    /\ MatchedLengths
    /\ Len(conformer) >= 2
    /\ oe_molecule[1] # oe_molecule[2]
    /\ Len(result.grid) >= 2

(* C2: when no lattice point survives the shell filter, generate returns an
   empty grid without raising. *)
C2_EmptyGridReturned ==
    (Returned /\ MatchedLengths /\ result.grid = << >>) =>
        result.raised = "none"

(* C3, as stated: whenever inner_vdw_scale >= outer_vdw_scale, no lattice
   point is retained. *)
C3_NoShellNoPoints ==
    (Returned /\ settings.inner_vdw_scale >= settings.outer_vdw_scale) =>
        result.grid = << >>

(* C3, amended: whenever inner_vdw_scale > outer_vdw_scale (strictly), no
   lattice point is retained. *)
C3_InvertedShellNoPoints ==
    (Returned /\ settings.inner_vdw_scale > settings.outer_vdw_scale) =>
        result.grid = << >>

\* generate ran to its end on an inverted shell.
C3_Witness ==
    /\ Returned
    /\ MatchedLengths
    /\ Len(conformer) >= 2
    /\ settings.inner_vdw_scale > settings.outer_vdw_scale
    /\ result.raised = "ValueError: need at least one array to concatenate"

(* C4: with everything else fixed, a larger outer_vdw_scale never gives
   fewer points. Stated of two calls that both return a grid, so that the
   failure of the empty grid (C2) plays no part. *)
C4_OuterMonotone ==
    (ReturnedGrid /\ MatchedLengths) =>
        \A outer \in Scales :
            outer > settings.outer_vdw_scale =>
                LET larger == generate(oe_molecule, conformer,
                                [settings EXCEPT !.outer_vdw_scale = outer])
                IN  larger.raised = "none" =>
                        Len(larger.grid) >= Len(result.grid)

(* C5: whenever the number of radii differs from the number of conformer
   rows, generate raises and returns no grid. (The claim names the error,
   a shape error raised before any distance test; this states only that a
   call with mismatched lengths does not return a grid.) *)
C5_MismatchRaises ==
    (Returned /\ ~MatchedLengths) =>
        /\ result.raised # "none"
        /\ result.grid = << >>

(* C6: with everything else fixed, a larger inner_vdw_scale never gives more
   points: the points it retains are among those retained before. *)
C6_InnerMonotone ==
    Returned =>
        \A inner \in Scales :
            inner > settings.inner_vdw_scale =>
                LET larger == generate(oe_molecule, conformer,
                                [settings EXCEPT !.inner_vdw_scale = inner])
                IN  /\ Points(larger) \subseteq Points(result)
                    /\ Len(larger.grid) <= Len(result.grid)

\* A larger inner scale of the model removes some, not all, of a grid.
C6_Witness ==
    /\ ReturnedGrid
    /\ MatchedLengths
    /\ \E inner \in Scales :
          /\ inner > settings.inner_vdw_scale
          /\ LET larger == generate(oe_molecule, conformer,
                              [settings EXCEPT !.inner_vdw_scale = inner])
             IN  /\ Len(larger.grid) < Len(result.grid)
                 /\ Len(larger.grid) > 0

\* The translations tried, in whole length units.
Translations == {<<1, -2, 3>>, <<-1, 0, 0>>}

Translate(c, t) == [i \in 1..Len(c) |-> [a \in Axes |-> c[i][a] + t[a]]]

LatticeIndex(p) ==
    [a \in Axes |->
        (p[a] - 2 * conformer_center(conformer)[a])
            \div (settings.spacing * Len(conformer))
        + n_cells(oe_molecule, conformer, settings)]

LexLess(i, j) ==
    \/ i[1] < j[1]
    \/ (i[1] = j[1] /\ i[2] < j[2])
    \/ (i[1] = j[1] /\ i[2] = j[2] /\ i[3] < j[3])

FccParity(i) ==
    <<i[1] % 2, i[2] % 2, i[3] % 2>>
        \in {<<0, 0, 0>>, <<1, 1, 0>>, <<0, 1, 1>>, <<1, 0, 1>>}

(* C8: the returned points are in strictly ascending lexicographic order of
   their lattice index (x slowest, z fastest), every index is within
   0..2*n_cells and has an FCC parity pattern. *)
C8_LatticeOrder ==
    ReturnedGrid =>
        /\ \A k \in 1..Len(result.grid) :
              LET p == result.grid[k]
                  idx == LatticeIndex(p)
              IN  /\ \A a \in Axes :
                        /\ (p[a] - 2 * conformer_center(conformer)[a])
                              % (settings.spacing * Len(conformer)) = 0
                        /\ idx[a] \in 0..(2 * n_cells(oe_molecule, conformer, settings))
                  /\ FccParity(idx)
        /\ \A k \in 1..(Len(result.grid) - 1) :
              LexLess(LatticeIndex(result.grid[k]), LatticeIndex(result.grid[k + 1]))

\* A grid whose points differ along x, along y and along z.
C8_Witness ==
    /\ ReturnedGrid
    /\ MatchedLengths
    /\ \E j, k \in 1..Len(result.grid) :
          /\ result.grid[j][1] # result.grid[k][1]
          /\ result.grid[j][2] # result.grid[k][2]
          /\ result.grid[j][3] # result.grid[k][3]

SingleAtomAtOrigin ==
    /\ Len(oe_molecule) = 1
    /\ conformer = << <<0, 0, 0>> >>

(* C9: for one atom at the origin with inner_vdw_scale < outer_vdw_scale,
   every returned point is at a distance within [radius * inner_vdw_scale,
   radius * outer_vdw_scale] of the origin, and with (x, y, z) every
   (+-x, +-y, +-z) is returned. *)
C9_SingleAtomSymmetry ==
    (ReturnedGrid /\ SingleAtomAtOrigin
        /\ settings.inner_vdw_scale < settings.outer_vdw_scale) =>
        \A p \in Points(result) :
            /\ (p[1] * p[1] + p[2] * p[2] + p[3] * p[3]) * ScaleDen * ScaleDen
                  >= (2 * oe_molecule[1] * settings.inner_vdw_scale)
                      * (2 * oe_molecule[1] * settings.inner_vdw_scale)
            /\ (p[1] * p[1] + p[2] * p[2] + p[3] * p[3]) * ScaleDen * ScaleDen
                  <= (2 * oe_molecule[1] * settings.outer_vdw_scale)
                      * (2 * oe_molecule[1] * settings.outer_vdw_scale)
            /\ \A sx, sy, sz \in {-1, 1} :
                  <<sx * p[1], sy * p[2], sz * p[3]>> \in Points(result)

\* A grid around one atom at the origin with points off the axes.
C9_Witness ==
    /\ ReturnedGrid
    /\ SingleAtomAtOrigin
    /\ settings.inner_vdw_scale < settings.outer_vdw_scale
    /\ \E p \in Points(result) : p[1] # 0 /\ p[2] # 0

(* C10: settings with spacing <= 0, inner_vdw_scale <= 0, outer_vdw_scale
   <= 0 or a type other than "fcc" are never constructed, so generate never
   runs on them and never fails on the configuration. *)
C10_InvalidSettingsRejected ==
    /\ settings # NoSettings =>
          /\ settings.type = "fcc"
          /\ settings.spacing > 0
          /\ settings.inner_vdw_scale > 0
          /\ settings.outer_vdw_scale > 0
    /\ pc = "ValidationError" => (settings = NoSettings /\ result = NoResult)
    /\ result.raised \notin
          {"OverflowError: cannot convert float infinity to integer",
           "ValueError: cannot convert float NaN to integer"}

\* A construction was rejected, and generate never ran.
C10_Witness ==
    /\ pc = "ValidationError"
    /\ settings = NoSettings
    /\ result = NoResult

\* The lattice indices, along axis a, of the points of the centroid-anchored
\* lattice that lie within the bounding box of the atoms' outer shells:
\* minimum_bounds <= (index - n_cells) * spacing / 2 + centre <= maximum_bounds.
\* They may be negative or exceed 2 * n_cells.
BoundingBoxIndices(a) ==
    LET N == Len(conformer)
        n == n_cells(oe_molecule, conformer, settings)
        centre == 2 * ScaleDen * conformer_center(conformer)[a]
        step == ScaleDen * settings.spacing * N
        lo == 2 * N * minimum_bounds(oe_molecule, conformer, settings)[a] - centre
        hi == 2 * N * maximum_bounds(oe_molecule, conformer, settings)[a] - centre
    IN  (n - ((-lo) \div step))..(n + (hi \div step))

\* The point of lattice index idx is outside every inner shell and inside
\* at least one outer shell.
PassesShellTest(idx) ==
    LET p == [a \in Axes |->
                (idx[a] - n_cells(oe_molecule, conformer, settings))
                    * settings.spacing * Len(conformer)
                + 2 * conformer_center(conformer)[a]]
    IN  /\ \A i \in 1..Len(conformer) :
              PointAtomDistance2(p, i) * ScaleDen * ScaleDen
                  >= ShellRadius2(i, settings.inner_vdw_scale)
        /\ \E i \in 1..Len(conformer) :
              PointAtomDistance2(p, i) * ScaleDen * ScaleDen
                  <= ShellRadius2(i, settings.outer_vdw_scale)

(* C11: every point of the centroid-anchored FCC lattice that passes the
   shell test is in the output. Stated of calls that return a grid, so that
   the failure of the empty grid (C2) plays no part. *)
C11_EveryShellPointReturned ==
    (ReturnedGrid /\ MatchedLengths) =>
        \A x \in BoundingBoxIndices(1), y \in BoundingBoxIndices(2),
           z \in BoundingBoxIndices(3) :
            (FccParity(<<x, y, z>>) /\ PassesShellTest(<<x, y, z>>)) =>
                \E k \in 1..Len(result.grid) :
                    LatticeIndex(result.grid[k]) = <<x, y, z>>

====
